---------------------------- MODULE Spec2Model ----------------------------
(***************************************************************************)
(* Model of backend/src/analyzer/ad_analyzer.py: the detection validator,  *)
(* the IoU metric, the merge pass, the bounded frame cache of              *)
(* VideoProcessor, the quality analyzer, AdGroupProcessor's grouping and   *)
(* per-track loop, and the session of AdQualityAnalyzer.process_video.     *)
(*                                                                         *)
(* Specifications: SpecPure (single calls of the pure functions),          *)
(* SpecMerge (merge_groups, twice), SpecCache (sequential read_frame and   *)
(* release), SpecProcess (merge and process_groups on an opened video),    *)
(* SpecSession (process_video from initialize to its return) and           *)
(* SpecConcurrent (read_frame called by several threads).                  *)
(*                                                                         *)
(* The clustering of group_ads is scikit-learn's DBSCAN; it is modelled by *)
(* its algorithm on exactly z-scored features.                             *)
(*                                                                         *)
(* Numbers.  Python floats are modelled as exact rationals <<n, d>> with   *)
(* d > 0.  The thresholds the code compares against (0.7, 0.003, 0.15,     *)
(* 0.05, 0.5, 0.75) are compared exactly; for the integer inputs of the    *)
(* model a correctly rounded quotient n/d equals the literal's double only *)
(* when the rational equals the literal, so the float comparison and the   *)
(* rational one agree.  np.uint8 arithmetic keeps its width (% 256).       *)
(* The 1e-6 of the contrast quotient is kept where the 8-bit sum is 0 and  *)
(* dropped elsewhere (relative error below 1e-6, no comparison of the      *)
(* model sits that close to a threshold).  The score of evaluate_quality   *)
(* is the exact weighted sum; the float sum can be one ulp below it, which *)
(* changes a label only when the exact score is exactly 0.5 or 0.75.       *)
(***************************************************************************)
EXTENDS Integers, Sequences, FiniteSets, TLC

VARIABLES
    call,          \* the last call of a pure function: its arguments and result
    frame_rate,    \* VideoProcessor.frame_rate / AdGroupProcessor.frame_rate
    frame_width,   \* original frame width
    frame_height,  \* original frame height
    frame_count,   \* VideoProcessor.frame_count
    cap,           \* VideoProcessor.cap is not None
    frame_cache,   \* VideoProcessor.frame_cache: its (key, frame) items in dict order
    last_read,     \* history: the last read_frame call, its result and its eviction
    ad_groups,     \* the list handed to merge_groups
    passes,        \* history: the list returned by each merge_groups pass
    groups,        \* process_groups: the merged list being iterated
    group_id,      \* process_groups: loop position (1-based index of the next group)
    results,       \* process_groups: results, one record per appended string
    steps,         \* history: one record per iteration of the process_groups loop
    pc,            \* position of the driver of the specification
    video,         \* process_video: the video file as cv2.VideoCapture finds it
    predictions,   \* process_video: the predictions file as open/json.load find it
    valid_bboxes,  \* group_ads: the (frame_id, bbox) pairs that passed the filters
    labels,        \* group_ads: clustering.labels_, one label per valid bbox
    returned,      \* process_video: the returned list, NotReturned before the return
    workers,       \* concurrent callers of read_frame: position and locals of each
    decodes        \* history: per frame index, how often cap.read() decoded it

vars == <<call, frame_rate, frame_width, frame_height, frame_count, cap,
          frame_cache, last_read, ad_groups, passes, groups, group_id, results,
          steps, pc, video, predictions, valid_bboxes, labels, returned,
          workers, decodes>>

---------------------------------------------------------------------------
(* Program constants (ad_analyzer.py lines 28-38).                         *)
MIN_SIZE_RATIO == <<3, 1000>>
MIN_AREA == 1000
MAX_AREA == 200000
MIN_CONFIDENCE == <<7, 10>>
ALLOWED_CLASSES == {0, 1, 2, 3, 4}
MERGE_IOU_THRESHOLD == <<15, 100>>
MAX_TIME_GAP_SECONDS == 1
MIN_DURATION == <<5, 100>>
MAX_CACHE_SIZE == 10
\* VideoProcessor.__init__: the analysis resolution.
scale_width == 640
scale_height == 360
\* AdGroupProcessor.__init__: the value configured on the processor.
max_time_gap_seconds == 2

---------------------------------------------------------------------------
(* Rational arithmetic.                                                    *)
RECURSIVE GCD(_, _)
GCD(a, b) == IF b = 0 THEN a ELSE GCD(b, a % b)

Abs(n) == IF n < 0 THEN -n ELSE n
Min2(a, b) == IF a <= b THEN a ELSE b
Max2(a, b) == IF a >= b THEN a ELSE b

RNorm(r) ==
    LET g == GCD(Abs(r[1]), r[2])
    IN  IF g = 0 THEN r ELSE <<r[1] \div g, r[2] \div g>>
RLt(a, b) == a[1] * b[2] < b[1] * a[2]
RLe(a, b) == a[1] * b[2] <= b[1] * a[2]
REq(a, b) == a[1] * b[2] = b[1] * a[2]
RAdd(a, b) == RNorm(<<a[1] * b[2] + b[1] * a[2], a[2] * b[2]>>)
RMul(a, b) == RNorm(<<a[1] * b[1], a[2] * b[2]>>)
RMin(a, b) == IF RLe(a, b) THEN a ELSE b

\* Python int(): truncation toward zero of n/d, d > 0.
IntTrunc(n, d) == IF n >= 0 THEN n \div d ELSE -((-n) \div d)

SetMin(S) == CHOOSE m \in S : \A n \in S : m <= n
SetMax(S) == CHOOSE m \in S : \A n \in S : m >= n

Box(x, y, w, h) == [x |-> x, y |-> y, width |-> w, height |-> h]

---------------------------------------------------------------------------
(* BBoxValidator.is_valid                                                  *)
is_valid_no_class(bbox, fw, fh, confidence, class_id) ==
    LET size == bbox.width * bbox.height
        size_norm == IF fw * fh > 0 THEN <<size, fw * fh>> ELSE <<0, 1>>
    IN  /\ bbox.x >= 0
        /\ bbox.y >= 0
        /\ bbox.x + bbox.width <= fw
        /\ bbox.y + bbox.height <= fh
        /\ bbox.width > 0
        /\ bbox.height > 0
        /\ RLe(MIN_SIZE_RATIO, size_norm)
        /\ size >= MIN_AREA
        /\ size <= MAX_AREA
        /\ RLe(MIN_CONFIDENCE, confidence)

is_valid(bbox, fw, fh, confidence, class_id) ==
    LET size == bbox.width * bbox.height
        size_norm == IF fw * fh > 0 THEN <<size, fw * fh>> ELSE <<0, 1>>
    IN  /\ bbox.x >= 0
        /\ bbox.y >= 0
        /\ bbox.x + bbox.width <= fw
        /\ bbox.y + bbox.height <= fh
        /\ bbox.width > 0
        /\ bbox.height > 0
        /\ RLe(MIN_SIZE_RATIO, size_norm)
        /\ size >= MIN_AREA
        /\ size <= MAX_AREA
        /\ RLe(MIN_CONFIDENCE, confidence)
        /\ class_id \in ALLOWED_CLASSES

---------------------------------------------------------------------------
(* BBoxMetrics.calculate_iou: the result as a rational.                    *)
calculate_iou_x_only(bbox1, bbox2) ==
    LET x_left == Max2(bbox1.x, bbox2.x)
        y_top == Max2(bbox1.y, bbox2.y)
        x_right == Min2(bbox1.x + bbox1.width, bbox2.x + bbox2.width)
        y_bottom == Min2(bbox1.y + bbox1.height, bbox2.y + bbox2.height)
        intersection == (x_right - x_left) * (y_bottom - y_top)
        union == bbox1.width * bbox1.height + bbox2.width * bbox2.height
                     - intersection
    IN  IF x_right < x_left
        THEN <<0, 1>>
        ELSE IF union > 0 THEN <<intersection, union>> ELSE <<0, 1>>

calculate_iou(bbox1, bbox2) ==
    LET x_left == Max2(bbox1.x, bbox2.x)
        y_top == Max2(bbox1.y, bbox2.y)
        x_right == Min2(bbox1.x + bbox1.width, bbox2.x + bbox2.width)
        y_bottom == Min2(bbox1.y + bbox1.height, bbox2.y + bbox2.height)
        intersection == (x_right - x_left) * (y_bottom - y_top)
        area1 == bbox1.width * bbox1.height
        area2 == bbox2.width * bbox2.height
        union == area1 + area2 - intersection
    IN  IF x_right < x_left \/ y_bottom < y_top
        THEN <<0, 1>>
        ELSE IF union > 0 THEN <<intersection, union>> ELSE <<0, 1>>

---------------------------------------------------------------------------
(* BBoxMetrics.max_bbox: the bbox of the first member of largest area      *)
(* (np.argmax returns the first maximal index).  frames is a sequence of   *)
(* <<frame_id, bbox>>.                                                     *)
Area(b) == b.width * b.height

\* max_bbox taking the last of the largest members.
max_bbox_last(frames) ==
    LET idx == CHOOSE i \in 1..Len(frames) :
                 /\ \A j \in 1..Len(frames) : Area(frames[j][2]) <= Area(frames[i][2])
                 /\ \A j \in (i + 1)..Len(frames) : Area(frames[j][2]) < Area(frames[i][2])
    IN  frames[idx][2]

max_bbox(frames) ==
    LET idx == CHOOSE i \in 1..Len(frames) :
                 /\ \A j \in 1..Len(frames) : Area(frames[j][2]) <= Area(frames[i][2])
                 /\ \A j \in 1..(i - 1) : Area(frames[j][2]) < Area(frames[i][2])
    IN  frames[idx][2]

AdGroup(bbox, frames) == [bbox |-> bbox, frames |-> frames]

FrameIds(group) == {group.frames[i][1] : i \in 1..Len(group.frames)}
MinFrame(group) == SetMin(FrameIds(group))
MaxFrame(group) == SetMax(FrameIds(group))

---------------------------------------------------------------------------
(* AdGroupProcessor.merge_groups.                                          *)

\* list.sort(key=min frame): stable, so groups of equal key keep their order.
RECURSIVE InsertByMinFrame(_, _)
InsertByMinFrame(group, sorted) ==
    IF sorted = <<>> THEN <<group>>
    ELSE IF MinFrame(sorted[Len(sorted)]) <= MinFrame(group)
         THEN Append(sorted, group)
         ELSE Append(InsertByMinFrame(group, SubSeq(sorted, 1, Len(sorted) - 1)),
                     sorted[Len(sorted)])

\* merge_groups without the sort of line 388.
SortByMinFrame_unsorted(list) == list

RECURSIVE SortByMinFrame(_)
SortByMinFrame(list) ==
    IF list = <<>> THEN <<>>
    ELSE InsertByMinFrame(list[Len(list)],
                          SortByMinFrame(SubSeq(list, 1, Len(list) - 1)))

\* The condition of line 397 under which group is absorbed by last_group.
absorbs(last_group, group, fr) ==
    /\ MinFrame(group) - MaxFrame(last_group) <= fr * MAX_TIME_GAP_SECONDS
    /\ RLt(MERGE_IOU_THRESHOLD, calculate_iou(last_group.bbox, group.bbox))

\* Lines 400-401: last_group takes the members of group and the bbox of its
\* largest member.
absorb_keep_bbox(last_group, group) ==
    AdGroup(last_group.bbox, last_group.frames \o group.frames)

absorb(last_group, group) ==
    AdGroup(max_bbox(last_group.frames \o group.frames),
            last_group.frames \o group.frames)

\* The loop of lines 390-403 from position i on.  acc.merged is
\* merged_groups; acc.decisions records, per candidate compared, the
\* accepted track it was compared with and the outcome.
RECURSIVE merge_loop(_, _, _, _)
merge_loop(sorted, i, acc, fr) ==
    IF i > Len(sorted) THEN acc
    ELSE LET group == sorted[i]
             n == Len(acc.merged)
         IN  IF n = 0
             THEN merge_loop(sorted, i + 1,
                             [merged |-> <<group>>, decisions |-> acc.decisions], fr)
             ELSE LET last_group == acc.merged[n]
                      hit == absorbs(last_group, group, fr)
                      decision == [last_group |-> last_group, group |-> group,
                                   absorbed |-> hit]
                  IN  IF hit
                      THEN merge_loop(sorted, i + 1,
                               [merged |-> [acc.merged EXCEPT ![n] =
                                               absorb(last_group, group)],
                                decisions |-> Append(acc.decisions, decision)], fr)
                      ELSE merge_loop(sorted, i + 1,
                               [merged |-> Append(acc.merged, group),
                                decisions |-> Append(acc.decisions, decision)], fr)

merge_run(list, fr) ==
    merge_loop(SortByMinFrame(list), 1, [merged |-> <<>>, decisions |-> <<>>], fr)

merge_groups(list, fr) == merge_run(list, fr).merged

---------------------------------------------------------------------------
(* VideoProcessor.scale_bbox: original-resolution bbox to the analysis     *)
(* resolution, each coordinate truncated by int().                         *)
scale_bbox(bbox, fw, fh) ==
    Box(IntTrunc(bbox.x * scale_width, fw),
        IntTrunc(bbox.y * scale_height, fh),
        IntTrunc(bbox.width * scale_width, fw),
        IntTrunc(bbox.height * scale_height, fh))

---------------------------------------------------------------------------
(* AdAnalyzer.analyze.  A frame is [height, width, gray_min, gray_max]:    *)
(* its shape and the extreme 8-bit luminances of any non-empty region of   *)
(* it.  padding = 0.2 (AdAnalyzer.__init__).                               *)

\* The pixel rectangle frame[y_start:y_end, x_start:x_end] the contrast is
\* taken from; empty when the code takes its "region is empty" branch.
ad_region(frame, bbox) ==
    LET x_start == Max2(0, IntTrunc(5 * bbox.x - bbox.width, 5))
        y_start == Max2(0, IntTrunc(5 * bbox.y - bbox.height, 5))
        x_end == Min2(frame.width, IntTrunc(5 * bbox.x + 6 * bbox.width, 5))
        y_end == Min2(frame.height, IntTrunc(5 * bbox.y + 6 * bbox.height, 5))
    IN  [empty |-> (x_end <= x_start \/ y_end <= y_start),
         x_start |-> x_start, y_start |-> y_start,
         x_end |-> x_end, y_end |-> y_end]

\* (max - min) / (max + min + 1e-6) on np.uint8 operands: the difference and
\* the sum are taken in 8 bits, then divided as float64.  The 1e-6 is kept
\* where it decides the value (a zero sum) and dropped against a sum >= 1
\* (a relative change below 1e-6).
uint8(n) == n % 256

contrast_nowrap(min_intensity, max_intensity) ==
    LET d == max_intensity - min_intensity
        s == max_intensity + min_intensity
    IN  IF s = 0 THEN <<d * 1000000, 1>> ELSE RNorm(<<d, s>>)

contrast(min_intensity, max_intensity) ==
    LET d == uint8(max_intensity - min_intensity)
        s == uint8(max_intensity + min_intensity)
    IN  IF s = 0 THEN <<d * 1000000, 1>> ELSE RNorm(<<d, s>>)

analyze(frame, bbox, original_frame_width, original_frame_height) ==
    LET size == bbox.width * bbox.height
        frame_area == original_frame_width * original_frame_height
        size_norm == IF frame_area > 0 THEN RNorm(<<size, frame_area>>) ELSE <<0, 1>>
        \* abs(center - dim/2) < 0.2*dim, with center = pos + len/2
        centered ==
            /\ 5 * Abs(2 * bbox.x + bbox.width - original_frame_width)
                 < 2 * original_frame_width
            /\ 5 * Abs(2 * bbox.y + bbox.height - original_frame_height)
                 < 2 * original_frame_height
        pos_score == IF centered THEN <<1, 1>> ELSE <<1, 2>>
        region == ad_region(frame, bbox)
        contrast_norm == IF region.empty
                         THEN <<0, 1>>
                         ELSE contrast(frame.gray_min, frame.gray_max)
    IN  [size_norm |-> size_norm,
         contrast_norm |-> contrast_norm,
         position_score |-> pos_score,
         pos_label |-> IF centered THEN "center" ELSE "periphery"]

---------------------------------------------------------------------------
(* AdAnalyzer.evaluate_quality                                             *)
quality_label(score) ==
    IF RLt(score, <<1, 2>>) THEN "low"
    ELSE IF RLt(score, <<3, 4>>) THEN "medium"
    ELSE "high"

evaluate_quality_weights(metrics, duration) ==
    LET duration_norm == RMin(RMul(duration, <<1, 3>>), <<1, 1>>)
        score == RAdd(RAdd(RMul(<<3, 10>>, metrics.size_norm),
                           RMul(<<3, 10>>, metrics.position_score)),
                      RAdd(RMul(<<3, 10>>, metrics.contrast_norm),
                           RMul(<<2, 10>>, duration_norm)))
    IN  [score |-> score, label |-> quality_label(score)]

evaluate_quality(metrics, duration) ==
    LET duration_norm == RMin(RMul(duration, <<1, 3>>), <<1, 1>>)
        score == RAdd(RAdd(RMul(<<3, 10>>, metrics.size_norm),
                           RMul(<<3, 10>>, metrics.position_score)),
                      RAdd(RMul(<<2, 10>>, metrics.contrast_norm),
                           RMul(<<2, 10>>, duration_norm)))
    IN  [score |-> score, label |-> quality_label(score)]

---------------------------------------------------------------------------
(* VideoProcessor.read_frame and release.  frame_cache is the dict as the  *)
(* sequence of its items <<frame_id, frame>> in insertion order (a Python  *)
(* dict iterates in insertion order; del keeps the order of the rest).     *)
None == [none |-> TRUE, height |-> 0, width |-> 0, gray_min |-> 0, gray_max |-> 0]
Some(frame) == [none |-> FALSE, height |-> frame.height, width |-> frame.width,
                gray_min |-> frame.gray_min, gray_max |-> frame.gray_max]

Keys(cache) == {cache[i][1] : i \in 1..Len(cache)}
Lookup(cache, frame_id) ==
    cache[CHOOSE i \in 1..Len(cache) : cache[i][1] = frame_id][2]
Delete(cache, key) == SelectSeq(cache, LAMBDA item : item[1] # key)

\* Lines 123-125: the key removed when the cache is full.
oldest_frame(cache) == SetMin(Keys(cache))

\* decoded is what cap.set/cap.read/cv2.resize produce for this call:
\* [kind |-> "ok", frame |-> the resized frame], [kind |-> "fail"] (ret is
\* False) or [kind |-> "raise"] (an exception inside the try block).
\* The result: the value returned, the cache afterwards, whether the decoder
\* was asked, and the key evicted (-1 when none).
read_frame(cache, cap_open, count, frame_id, decoded) ==
    LET unchanged(ret, asked) ==
            [ret |-> ret, frame_cache |-> cache, decoder_asked |-> asked,
             evicted |-> -1]
    IN  IF ~cap_open THEN unchanged(None, FALSE)
        ELSE IF frame_id >= count THEN unchanged(None, FALSE)
        ELSE IF frame_id \in Keys(cache)
             THEN unchanged(Some(Lookup(cache, frame_id)), FALSE)
        ELSE IF decoded.kind = "raise" THEN unchanged(None, TRUE)
        ELSE IF decoded.kind = "fail" THEN unchanged(None, TRUE)
        ELSE LET full == Len(cache) >= MAX_CACHE_SIZE
                 kept == IF full THEN Delete(cache, oldest_frame(cache)) ELSE cache
             IN  [ret |-> Some(decoded.frame),
                  frame_cache |-> Append(kept, <<frame_id, decoded.frame>>),
                  decoder_asked |-> TRUE,
                  evicted |-> IF full THEN oldest_frame(cache) ELSE -1]

NoRead == [frame_id |-> -1, ret |-> None, before |-> <<>>, decoder_asked |-> FALSE,
           evicted |-> -1, kind |-> "none"]
\* before: the keys of the cache when the call was made, in insertion order.
ReadRecord(frame_id, cache, decoded, r) ==
    [frame_id |-> frame_id, ret |-> r.ret,
     before |-> [i \in 1..Len(cache) |-> cache[i][1]],
     decoder_asked |-> r.decoder_asked, evicted |-> r.evicted,
     kind |-> IF r.decoder_asked THEN decoded.kind ELSE "none"]

---------------------------------------------------------------------------
(* Input sets of the specifications.                                       *)
Resolutions == {<<640, 360>>, <<1280, 720>>}

\* Detections offered to is_valid: boxes inside, outside and on the edge of
\* a 640x360 frame, areas below, at and above the area limits.
ValidatorXs == {-1, 0, 500}
ValidatorYs == {-1, 0, 200}
ValidatorWidths == {0, 20, 25, 40, 140, 500, 640}
ValidatorHeights == {0, 25, 40, 160, 360}
ValidatorFrames == {<<640, 360>>, <<0, 360>>, <<1280, 720>>}
Confidences == {<<0, 1>>, <<69, 100>>, <<7, 10>>, <<9, 10>>, <<1, 1>>}
ClassIds == {-1, 0, 4, 5}

\* Small integer boxes for calculate_iou: every relative position of two
\* boxes (apart, touching on an edge or a corner, overlapping, nested, equal).
MaxCoord == 2
MaxSide == 3
IouBoxes == {Box(x, y, w, h) : x \in 0..MaxCoord, y \in 0..MaxCoord,
                               w \in 1..MaxSide, h \in 1..MaxSide}

\* Frames at the analysis resolution, with every pair of extreme luminances.
Luminances == {<<mn, mx>> \in (0..255) \X (0..255) : mn <= mx}
AnalysisFrame(lum) ==
    [height |-> scale_height, width |-> scale_width,
     gray_min |-> lum[1], gray_max |-> lum[2]]
AnalyzeBoxes == {Box(250, 100, 140, 120), Box(0, 0, 40, 25), Box(800, 400, 200, 100)}

\* Metrics offered to evaluate_quality directly: a grid of tenths.
Tenths == {<<k, 10>> : k \in 0..10}
Durations == {<<0, 1>>, <<1, 30>>, <<1, 1>>, <<3, 2>>, <<3, 1>>, <<5, 1>>}
\* Luminances of the frames whose metrics are scored; their 8-bit sum is
\* non-zero or their difference is zero.
ScoredLuminances == {<<0, 0>>, <<10, 20>>, <<0, 255>>, <<100, 200>>, <<127, 255>>}

---------------------------------------------------------------------------
(* The variables a specification does not use keep these values.           *)
NoCall == [op |-> "none"]

IdleVideo ==
    /\ frame_rate = 30
    /\ frame_width = scale_width
    /\ frame_height = scale_height
    /\ frame_count = 0
    /\ cap = FALSE
    /\ frame_cache = <<>>
    /\ last_read = NoRead

IdleMerge ==
    /\ ad_groups = <<>>
    /\ passes = <<>>

IdleProcess ==
    /\ groups = <<>>
    /\ group_id = 1
    /\ results = <<>>
    /\ steps = <<>>

videoVars == <<frame_rate, frame_width, frame_height, frame_count, cap,
               frame_cache, last_read>>
mergeVars == <<ad_groups, passes>>
processVars == <<groups, group_id, results, steps>>

\* Outside process_video and outside concurrent use these keep their values.
NotReturned == [returned |-> FALSE, value |-> <<>>]
Returned(value) == [returned |-> TRUE, value |-> value]
NoVideo == [exists |-> FALSE, opens |-> FALSE, fps |-> 0, width |-> 0,
            height |-> 0, count |-> 0]
NoPredictions == [kind |-> "none", frames |-> <<>>]

IdleSession ==
    /\ video = NoVideo
    /\ predictions = NoPredictions
    /\ valid_bboxes = <<>>
    /\ labels = <<>>
    /\ returned = NotReturned

IdleWorkers ==
    /\ workers = <<>>
    /\ decodes = <<>>

sessionVars == <<video, predictions, valid_bboxes, labels, returned>>
workerVars == <<workers, decodes>>

---------------------------------------------------------------------------
(* SpecPure: one call of a pure function on inputs drawn from the sets     *)
(* above.                                                                  *)
InitPure ==
    /\ IdleSession /\ IdleWorkers
    /\ call = NoCall
    /\ pc = "idle"
    /\ IdleVideo /\ IdleMerge /\ IdleProcess

CallIsValid ==
    /\ pc = "idle"
    /\ pc' = "returned"
    /\ UNCHANGED <<sessionVars, workerVars, videoVars, mergeVars, processVars>>
    /\ \E x \in ValidatorXs, y \in ValidatorYs, w \in ValidatorWidths,
       h \in ValidatorHeights, f \in ValidatorFrames,
       confidence \in Confidences, class_id \in ClassIds :
        call' = [op |-> "is_valid", bbox |-> Box(x, y, w, h),
                 frame_width |-> f[1], frame_height |-> f[2],
                 confidence |-> confidence, class_id |-> class_id,
                 ret |-> is_valid(Box(x, y, w, h), f[1], f[2], confidence, class_id)]

CallIou ==
    /\ pc = "idle"
    /\ pc' = "returned"
    /\ UNCHANGED <<sessionVars, workerVars, videoVars, mergeVars, processVars>>
    /\ \E bbox1 \in IouBoxes, bbox2 \in IouBoxes :
        call' = [op |-> "calculate_iou", bbox1 |-> bbox1, bbox2 |-> bbox2,
                 ret |-> calculate_iou(bbox1, bbox2)]

CallAnalyze ==
    /\ pc = "idle"
    /\ pc' = "returned"
    /\ UNCHANGED <<sessionVars, workerVars, videoVars, mergeVars, processVars>>
    /\ \E lum \in Luminances, bbox \in AnalyzeBoxes, f \in Resolutions :
        call' = [op |-> "analyze", frame |-> AnalysisFrame(lum), bbox |-> bbox,
                 original_frame_width |-> f[1], original_frame_height |-> f[2],
                 region |-> ad_region(AnalysisFrame(lum), bbox),
                 ret |-> analyze(AnalysisFrame(lum), bbox, f[1], f[2])]

CallEvaluate ==
    /\ pc = "idle"
    /\ pc' = "returned"
    /\ UNCHANGED <<sessionVars, workerVars, videoVars, mergeVars, processVars>>
    /\ \E size_norm \in Tenths, position_score \in {<<0, 1>>, <<1, 2>>, <<1, 1>>},
       contrast_norm \in Tenths, duration \in Durations :
        LET metrics == [size_norm |-> size_norm, position_score |-> position_score,
                        contrast_norm |-> contrast_norm]
        IN  call' = [op |-> "evaluate_quality", metrics |-> metrics,
                     duration |-> duration,
                     ret |-> evaluate_quality(metrics, duration)]

\* process_groups lines 423-424: the metrics of analyze handed to
\* evaluate_quality.
CallAnalyzeEvaluate ==
    /\ pc = "idle"
    /\ pc' = "returned"
    /\ UNCHANGED <<sessionVars, workerVars, videoVars, mergeVars, processVars>>
    /\ \E lum \in ScoredLuminances, bbox \in AnalyzeBoxes, f \in Resolutions,
       duration \in Durations :
        LET metrics == analyze(AnalysisFrame(lum), bbox, f[1], f[2])
        IN  call' = [op |-> "analyze_evaluate", frame |-> AnalysisFrame(lum),
                     bbox |-> bbox, metrics |-> metrics, duration |-> duration,
                     ret |-> evaluate_quality(metrics, duration)]

NextPure ==
    \/ CallIsValid
    \/ CallIou
    \/ CallAnalyze
    \/ CallEvaluate
    \/ CallAnalyzeEvaluate

SpecPure == InitPure /\ [][NextPure]_vars

---------------------------------------------------------------------------
(* Properties of the pure functions, checked under SpecPure.               *)

\* C3: for every sampled region with 8-bit luminances 0 <= min <= max <= 255
\* the contrast_norm of analyze equals (max - min)/(max + min + eps) taken
\* without wrap-around and lies in [0,1], and every score computed from the
\* metrics of analyze lies in [0,1].
C3_ContrastInUnitInterval ==
    /\ (call.op = "analyze" /\ ~call.region.empty) =>
          /\ call.ret.contrast_norm
                = contrast_nowrap(call.frame.gray_min, call.frame.gray_max)
          /\ call.ret.contrast_norm[1] >= 0
          /\ call.ret.contrast_norm[1] <= call.ret.contrast_norm[2]
    /\ call.op = "analyze_evaluate" =>
          /\ RLe(<<0, 1>>, call.ret.score)
          /\ RLe(call.ret.score, <<1, 1>>)

\* C6: is_valid is true exactly when the box lies inside the frame with
\* positive sides, its area ratio, area, confidence and class pass the
\* thresholds; a class outside the allow-list (also the default -1) is
\* rejected; acceptance is upward closed in the confidence, so a higher
\* confidence threshold accepts no more detections.
C6_Accepts(b, fw, fh, confidence, class_id) ==
    /\ b.x >= 0 /\ b.y >= 0 /\ b.width > 0 /\ b.height > 0
    /\ b.x + b.width <= fw /\ b.y + b.height <= fh
    /\ b.width * b.height * 1000 >= 3 * fw * fh
    /\ 1000 <= b.width * b.height /\ b.width * b.height <= 200000
    /\ confidence[1] * 10 >= 7 * confidence[2]
    /\ class_id \in 0..4

C6_ValidatorIff ==
    call.op = "is_valid" =>
        /\ call.ret = C6_Accepts(call.bbox, call.frame_width, call.frame_height,
                                 call.confidence, call.class_id)
        /\ call.class_id \notin 0..4 => call.ret = FALSE
        /\ \A c \in Confidences :
              /\ (call.ret /\ RLe(call.confidence, c)) =>
                    is_valid(call.bbox, call.frame_width, call.frame_height,
                             c, call.class_id)
              /\ (~call.ret /\ RLe(c, call.confidence)) =>
                    ~is_valid(call.bbox, call.frame_width, call.frame_height,
                              c, call.class_id)

C6_Witness ==
    /\ call.op = "is_valid"
    /\ call.ret = TRUE
    /\ call.confidence = <<7, 10>>
    /\ call.bbox.width * call.bbox.height = 1000

\* C7: calculate_iou(a,a) = 1; it is 0 for boxes that do not overlap or only
\* touch; it is symmetric; it equals intersection/(area_a+area_b-intersection)
\* and lies in [0,1].
C7_Overlap(a, b) ==
    Max2(0, Min2(a.x + a.width, b.x + b.width) - Max2(a.x, b.x))
      * Max2(0, Min2(a.y + a.height, b.y + b.height) - Max2(a.y, b.y))

C7_IouProperties ==
    call.op = "calculate_iou" =>
        LET a == call.bbox1
            b == call.bbox2
            i == C7_Overlap(a, b)
        IN  /\ a = b => REq(call.ret, <<1, 1>>)
            /\ i = 0 => REq(call.ret, <<0, 1>>)
            /\ REq(call.ret, calculate_iou(b, a))
            /\ REq(call.ret, <<i, Area(a) + Area(b) - i>>)
            /\ RLe(<<0, 1>>, call.ret) /\ RLe(call.ret, <<1, 1>>)
            /\ call.ret[2] > 0

\* Two boxes that overlap in x but lie apart in y.
C7_Witness ==
    /\ call.op = "calculate_iou"
    /\ call.bbox1 = Box(0, 0, 2, 1)
    /\ call.bbox2 = Box(1, 2, 2, 1)
    /\ call.ret = <<0, 1>>

\* C8: score = 0.3*size_norm + 0.3*position_score + 0.2*contrast_norm
\* + 0.2*min(duration/3, 1); low below 0.5, medium below 0.75, high from
\* 0.75; metrics in [0,1] give a score in [0,1]; all-ones metrics with
\* duration >= 3 give 1.0/high; all-zero metrics with zero duration give
\* 0.0/low.
C8_InUnit(r) == 0 <= r[1] /\ r[1] <= r[2]

C8_ScoreAndLabel ==
    call.op = "evaluate_quality" =>
        LET m == call.metrics
            d == call.duration
            s == call.ret.score
            \* 30 * min(duration/3, 1) as a rational
            dn30 == IF d[1] >= 3 * d[2] THEN <<30, 1>> ELSE <<10 * d[1], d[2]>>
            \* 30 * score, term by term
            s30 == RAdd(RAdd(RMul(<<9, 1>>, m.size_norm),
                             RMul(<<9, 1>>, m.position_score)),
                        RAdd(RMul(<<6, 1>>, m.contrast_norm),
                             RMul(<<1, 5>>, dn30)))
        IN  /\ REq(RMul(<<30, 1>>, s), s30)
            /\ (call.ret.label = "low") = (2 * s[1] < s[2])
            /\ (call.ret.label = "medium") = (2 * s[1] >= s[2] /\ 4 * s[1] < 3 * s[2])
            /\ (call.ret.label = "high") = (4 * s[1] >= 3 * s[2])
            /\ (C8_InUnit(m.size_norm) /\ C8_InUnit(m.position_score)
                    /\ C8_InUnit(m.contrast_norm)) => C8_InUnit(s)
            /\ (m.size_norm = <<10, 10>> /\ m.position_score = <<1, 1>>
                    /\ m.contrast_norm = <<10, 10>> /\ d[1] >= 3 * d[2])
                  => (REq(s, <<1, 1>>) /\ call.ret.label = "high")
            /\ (m.size_norm = <<0, 10>> /\ m.position_score = <<0, 1>>
                    /\ m.contrast_norm = <<0, 10>> /\ d[1] = 0)
                  => (REq(s, <<0, 1>>) /\ call.ret.label = "low")

C8_Witness ==
    /\ call.op = "evaluate_quality"
    /\ call.metrics.size_norm = <<10, 10>>
    /\ call.metrics.position_score = <<1, 1>>
    /\ call.metrics.contrast_norm = <<10, 10>>
    /\ call.duration = <<5, 1>>
    /\ call.ret.label = "high"

---------------------------------------------------------------------------
(* SpecMerge: merge_groups applied to a list of tracks, then applied again *)
(* to its own output.  Every input track is non-empty and carries the bbox *)
(* max_bbox gives it, as group_ads builds it (line 381).                   *)

\* Three nested boxes: IoU(BoxA, BoxB) = 0.15 exactly, IoU(BoxA, BoxD) = 0.3,
\* IoU(BoxB, BoxD) = 0.5.
BoxA == Box(0, 0, 100, 100)
BoxB == Box(0, 0, 30, 50)
BoxD == Box(0, 0, 60, 50)
MergeBoxes == {BoxA, BoxB, BoxD}
\* Frame gaps of 0, 30, 35 and 65 frames: at 30 fps within 1 s, exactly 1 s,
\* between 1 s and 2 s, and beyond 2 s.
MergeFrames == {0, 35, 65}
MergeFrameRates == {30}
MergeDetections == MergeFrames \X MergeBoxes

MaxGroups == 3

TrackOf(members) == AdGroup(max_bbox(members), members)

\* A list of n tracks, the k-th started by detection first[k]; the i-th
\* (none when i = 0) has second as its second member.
TrackList(n, first, i, second) ==
    [k \in 1..n |-> TrackOf(IF k = i THEN <<first[k], second>> ELSE <<first[k]>>)]

InitMerge ==
    /\ IdleSession /\ IdleWorkers
    /\ call = NoCall
    /\ pc = "merge"
    /\ frame_rate \in MergeFrameRates
    /\ frame_width = scale_width
    /\ frame_height = scale_height
    /\ frame_count = 0
    /\ cap = FALSE
    /\ frame_cache = <<>>
    /\ last_read = NoRead
    /\ \E n \in 1..MaxGroups, i \in 0..MaxGroups :
          /\ i <= n
          /\ \E first \in [1..n -> MergeDetections],
                second \in IF i = 0 THEN {<<0, BoxA>>} ELSE MergeDetections :
                ad_groups = TrackList(n, first, i, second)
    /\ passes = <<>>
    /\ IdleProcess

MergeFirst ==
    /\ pc = "merge"
    /\ passes = <<>>
    /\ passes' = <<merge_groups(ad_groups, frame_rate)>>
    /\ UNCHANGED <<sessionVars, workerVars, call, videoVars, ad_groups, processVars, pc>>

MergeAgain ==
    /\ pc = "merge"
    /\ Len(passes) = 1
    /\ passes' = Append(passes, merge_groups(passes[1], frame_rate))
    /\ UNCHANGED <<sessionVars, workerVars, call, videoVars, ad_groups, processVars, pc>>

NextMerge ==
    \/ MergeFirst
    \/ MergeAgain

SpecMerge == InitMerge /\ [][NextMerge]_vars

---------------------------------------------------------------------------
(* Properties of merge_groups, checked under SpecMerge.                    *)

\* C4: a candidate is absorbed by the most recently accepted track exactly
\* when its earliest frame minus that track's latest frame is at most
\* frame_rate * 2.0 s (the gap configured on the AdGroupProcessor) and the
\* IoU of the envelopes is strictly above 0.15; candidates are visited in
\* non-decreasing order of earliest frame, each compared only with the most
\* recently accepted track.
C4_MergeCondition ==
    Len(passes) >= 1 =>
        LET run == merge_run(ad_groups, frame_rate)
            ds == run.decisions
        IN  /\ passes[1] = run.merged
            /\ \A k \in 1..Len(ds) :
                  /\ ds[k].absorbed =
                        (/\ MinFrame(ds[k].group) - MaxFrame(ds[k].last_group)
                                <= frame_rate * max_time_gap_seconds
                         /\ 100 * calculate_iou(ds[k].last_group.bbox,
                                                ds[k].group.bbox)[1]
                              > 15 * calculate_iou(ds[k].last_group.bbox,
                                                   ds[k].group.bbox)[2])
                  /\ k > 1 => MinFrame(ds[k - 1].group) <= MinFrame(ds[k].group)

\* C5 as stated: a second pass over the output of merge_groups returns the
\* same tracks, with the same members and envelopes.
C5_SecondPassNoOp ==
    Len(passes) = 2 => passes[2] = passes[1]

RECURSIVE AllMembers(_)
AllMembers(list) ==
    IF list = <<>> THEN <<>>
    ELSE AllMembers(SubSeq(list, 1, Len(list) - 1)) \o list[Len(list)].frames

\* The groups that started the tracks of the first pass, in track order: the
\* first sorted group and every candidate that was not absorbed.
RECURSIVE Rejected(_)
Rejected(ds) ==
    IF ds = <<>> THEN <<>>
    ELSE LET rest == Rejected(SubSeq(ds, 1, Len(ds) - 1))
         IN  IF ds[Len(ds)].absorbed THEN rest ELSE Append(rest, ds[Len(ds)].group)

Seeds(list, fr) ==
    <<SortByMinFrame(list)[1]>> \o Rejected(merge_run(list, fr).decisions)

EnvelopesKept ==
    \A k \in 1..Len(passes[1]) :
        passes[1][k].bbox = Seeds(ad_groups, frame_rate)[k].bbox

\* C5 amended: a second pass never adds a track, keeps every member in its
\* place, keeps each envelope the largest-area member, and is a no-op
\* whenever every track of the first output still has the envelope of the
\* group that started it.
C5_SecondPassNoOpWhenEnvelopesKept ==
    Len(passes) = 2 =>
        /\ Len(passes[2]) <= Len(passes[1])
        /\ AllMembers(passes[2]) = AllMembers(passes[1])
        /\ \A k \in 1..Len(passes[2]) :
              /\ passes[2][k].frames # <<>>
              /\ passes[2][k].bbox = max_bbox(passes[2][k].frames)
        /\ EnvelopesKept => passes[2] = passes[1]

\* A first pass that absorbed a track and left two tracks, all with the
\* envelopes of their seeds, followed by a second pass.
C5_Witness ==
    /\ Len(passes) = 2
    /\ Len(ad_groups) = 3
    /\ Len(passes[1]) = 2
    /\ EnvelopesKept
    /\ passes[2] = passes[1]

---------------------------------------------------------------------------
(* SpecCache: read_frame calls on one opened VideoProcessor, then release. *)
(* The frames asked for are: any frame when the cache is empty, the lowest *)
(* or highest cached one (a hit), the one below the lowest or above the    *)
(* highest cached one, or the first index out of range: the cached indices *)
(* grow upwards, downwards or both ways.                                   *)
CacheFrameCount == 11
PlainFrame == AnalysisFrame(<<10, 20>>)
Decodings == {[kind |-> "ok", frame |-> PlainFrame], [kind |-> "fail"],
              [kind |-> "raise"]}

InitCache ==
    /\ IdleSession /\ IdleWorkers
    /\ call = NoCall
    /\ pc = "open"
    /\ frame_rate = 30
    /\ frame_width = scale_width
    /\ frame_height = scale_height
    /\ frame_count = CacheFrameCount
    /\ cap = TRUE
    /\ frame_cache = <<>>
    /\ last_read = NoRead
    /\ IdleMerge /\ IdleProcess

Asked(frame_id) ==
    \/ frame_id = frame_count
    \/ frame_cache = <<>>
    \/ /\ frame_cache # <<>>
       /\ frame_id \in {SetMin(Keys(frame_cache)) - 1, SetMin(Keys(frame_cache)),
                        SetMax(Keys(frame_cache)), SetMax(Keys(frame_cache)) + 1}

ReadFrame ==
    /\ \E frame_id \in 0..frame_count, decoded \in Decodings :
          /\ Asked(frame_id)
          /\ LET r == read_frame(frame_cache, cap, frame_count, frame_id, decoded)
             IN  /\ frame_cache' = r.frame_cache
                 /\ last_read' = ReadRecord(frame_id, frame_cache, decoded, r)
    /\ UNCHANGED <<sessionVars, workerVars, call, frame_rate, frame_width, frame_height, frame_count, cap,
                   mergeVars, processVars, pc>>

\* VideoProcessor.release
Release ==
    /\ pc = "open"
    /\ pc' = "released"
    /\ cap' = FALSE
    /\ frame_cache' = <<>>
    /\ returned' = Returned(results)
    /\ UNCHANGED <<call, frame_rate, frame_width, frame_height, frame_count,
                   last_read, mergeVars, processVars, video, predictions,
                   valid_bboxes, labels, workerVars>>

NextCache ==
    \/ ReadFrame
    \/ Release

SpecCache == InitCache /\ [][NextCache]_vars

\* C1: the cache never holds more than MAX_CACHE_SIZE entries, and a miss on
\* a full cache leaves exactly MAX_CACHE_SIZE entries and evicts the entry
\* that was inserted first.
C1_EvictsFirstInserted ==
    /\ Len(frame_cache) <= MAX_CACHE_SIZE
    /\ last_read.evicted # -1 =>
          /\ Len(frame_cache) = MAX_CACHE_SIZE
          /\ last_read.evicted = last_read.before[1]

---------------------------------------------------------------------------
(* AdGroupProcessor.process_groups, one loop iteration per step.           *)

\* Line 412-413: (max - min + 1) / frame_rate, 0.0 for a track without frames.
track_duration_no_plus_one(group, fr) ==
    IF group.frames = <<>> THEN <<0, 1>>
    ELSE <<MaxFrame(group) - MinFrame(group), fr>>

track_duration(group, fr) ==
    IF group.frames = <<>> THEN <<0, 1>>
    ELSE <<MaxFrame(group) - MinFrame(group) + 1, fr>>

\* Lines 418-420: where the loop goes on after a frame that could not be read
\* (continue).  n is the number of groups.
after_unread_frame_break(gid, n) == n + 1

after_unread_frame(gid, n) == gid + 1

\* Line 422: the bbox handed to analyze together with the cached frame.
analysis_bbox(group, fw, fh) == group.bbox

\* The iteration for groups[gid]: the new cache, results and loop position,
\* and the record of what the iteration did.
process_iteration(list, gid, cache, cap_open, count, fr, fw, fh, res, decoded) ==
    LET group == list[gid]
        duration == track_duration(group, fr)
        frame_id == group.frames[1][1]
        r == read_frame(cache, cap_open, count, frame_id, decoded)
        bbox == analysis_bbox(group, fw, fh)
        frame == r.ret
        metrics == analyze(frame, bbox, fw, fh)
        quality == evaluate_quality(metrics, duration)
        step(outcome, read) ==
            [group_id |-> gid, duration |-> duration, outcome |-> outcome,
             read |-> read,
             after |-> [i \in 1..Len(r.frame_cache) |-> r.frame_cache[i][1]],
             bbox |-> bbox,
             region |-> ad_region(frame, bbox)]
    IN  IF RLt(duration, MIN_DURATION)
        THEN [frame_cache |-> cache, results |-> res, group_id |-> gid + 1,
              step |-> [step("short", NoRead) EXCEPT
                           !.after = [i \in 1..Len(cache) |-> cache[i][1]]]]
        ELSE IF r.ret.none
        THEN [frame_cache |-> r.frame_cache, results |-> res,
              group_id |-> after_unread_frame(gid, Len(list)),
              step |-> step("unread", ReadRecord(frame_id, cache, decoded, r))]
        ELSE [frame_cache |-> r.frame_cache,
              results |-> Append(res,
                  [pos_label |-> metrics.pos_label, size_norm |-> metrics.size_norm,
                   contrast_norm |-> metrics.contrast_norm, duration |-> duration,
                   label |-> quality.label, score |-> quality.score]),
              group_id |-> gid + 1,
              step |-> step("result", ReadRecord(frame_id, cache, decoded, r))]

---------------------------------------------------------------------------
(* SpecProcess: AdQualityAnalyzer.process_video from the merge pass that   *)
(* ends group_ads (line 384) through process_groups (line 463) to release  *)
(* (line 464), on an opened video.                                         *)
ProcessTracks ==
    {TrackOf(<<<<0, BoxA>>>>),
     TrackOf(<<<<0, BoxA>>, <<5, BoxD>>>>),
     TrackOf(<<<<5, BoxD>>, <<0, BoxA>>>>),
     TrackOf(<<<<35, BoxB>>, <<40, BoxB>>>>),
     TrackOf(<<<<70, BoxA>>, <<75, BoxA>>>>),
     TrackOf(<<<<70, BoxB>>, <<70, BoxD>>>>)}
ProcessFrameRates == {30, 120}
ProcessFrameCounts == {60, 90}
ProcessDecodings ==
    {[kind |-> "ok", frame |-> AnalysisFrame(lum)] : lum \in {<<10, 20>>, <<100, 200>>}}
      \cup {[kind |-> "fail"], [kind |-> "raise"]}

InitProcess ==
    /\ IdleSession /\ IdleWorkers
    /\ call = NoCall
    /\ pc = "merge"
    /\ frame_rate \in ProcessFrameRates
    /\ \E f \in Resolutions : frame_width = f[1] /\ frame_height = f[2]
    /\ frame_count \in ProcessFrameCounts
    /\ cap = TRUE
    /\ frame_cache = <<>>
    /\ last_read = NoRead
    /\ \E n \in 1..MaxGroups : ad_groups \in [1..n -> ProcessTracks]
    /\ passes = <<>>
    /\ IdleProcess

\* group_ads line 384: return self.merge_groups(ad_groups)
MergeGroups ==
    /\ pc = "merge"
    /\ pc' = "process"
    /\ groups' = merge_groups(ad_groups, frame_rate)
    /\ passes' = <<merge_groups(ad_groups, frame_rate)>>
    /\ UNCHANGED <<sessionVars, workerVars, call, videoVars, ad_groups, group_id, results, steps>>

ProcessGroup ==
    /\ pc = "process"
    /\ group_id <= Len(groups)
    /\ \E decoded \in ProcessDecodings :
          LET it == process_iteration(groups, group_id, frame_cache, cap,
                                      frame_count, frame_rate, frame_width,
                                      frame_height, results, decoded)
          IN  /\ frame_cache' = it.frame_cache
              /\ results' = it.results
              /\ group_id' = it.group_id
              /\ steps' = Append(steps, it.step)
              /\ last_read' = IF it.step.outcome = "short" THEN last_read
                              ELSE it.step.read
    /\ UNCHANGED <<sessionVars, workerVars, call, frame_rate, frame_width, frame_height, frame_count, cap,
                   mergeVars, groups, pc>>

\* process_groups returns; process_video releases the video (line 464) and
\* returns the results (line 465).
ReturnResults ==
    /\ pc = "process"
    /\ group_id > Len(groups)
    /\ pc' = "done"
    /\ cap' = FALSE
    /\ frame_cache' = <<>>
    /\ returned' = Returned(results)
    /\ UNCHANGED <<call, frame_rate, frame_width, frame_height, frame_count,
                   last_read, mergeVars, processVars, video, predictions,
                   valid_bboxes, labels, workerVars>>

NextProcess ==
    \/ MergeGroups
    \/ ProcessGroup
    \/ ReturnResults

SpecProcess == InitProcess /\ [][NextProcess]_vars

---------------------------------------------------------------------------
(* Properties of process_groups, checked under SpecProcess.                *)
StepsWith(outcome) == {k \in 1..Len(steps) : steps[k].outcome = outcome}

\* C2: every track that reaches the analyzer is analysed with its envelope
\* rescaled by scale_bbox from the original resolution to the resolution
\* of the cached frame.
C2_BBoxRescaledBeforeAnalysis ==
    \A k \in StepsWith("result") :
        steps[k].bbox = scale_bbox(groups[steps[k].group_id].bbox,
                                   frame_width, frame_height)

\* C9: a track's duration is (max frame - min frame + 1)/frame_rate, and a
\* track whose duration is below 0.05 s is never read, analysed or reported;
\* a track on a single frame at 30 fps is dropped.
C9_ShortTracksDropped ==
    /\ \A k \in 1..Len(steps) :
          LET g == groups[steps[k].group_id]
              span == MaxFrame(g) - MinFrame(g) + 1
          IN  /\ steps[k].duration = <<span, frame_rate>>
              /\ 20 * span < frame_rate =>
                    /\ steps[k].outcome = "short"
                    /\ steps[k].read = NoRead
                    /\ k > 1 => steps[k].after = steps[k - 1].after
              /\ (span = 1 /\ frame_rate = 30) => steps[k].outcome = "short"
    /\ Len(results) = Cardinality(StepsWith("result"))
    /\ \A j \in 1..Len(results) :
          20 * results[j].duration[1] >= results[j].duration[2]

\* A two-member track on one frame was dropped and a later track reported.
C9_Witness ==
    \E k \in StepsWith("short"), j \in StepsWith("result") :
        /\ k < j
        /\ Len(groups[steps[k].group_id].frames) = 2
        /\ frame_rate = 30

\* C10: read_frame returns None exactly when the index is at or beyond the
\* frame count or the decoder fails or throws, and then leaves the cache as
\* it was; process_groups skips that track only and goes on to every later
\* track, so the loop visits all tracks and keeps every result.
C10_UnreadFrameIsLocal ==
    /\ \A k \in 1..Len(steps) :
          /\ steps[k].group_id = k
          /\ steps[k].outcome # "short" =>
                LET rd == steps[k].read
                    hit == \E i \in 1..Len(rd.before) : rd.before[i] = rd.frame_id
                IN  /\ rd.ret.none =
                          (\/ rd.frame_id >= frame_count
                           \/ ~hit /\ rd.kind \in {"fail", "raise"})
                    /\ rd.ret.none => steps[k].after = rd.before
                    /\ rd.ret.none = (steps[k].outcome = "unread")
    /\ Len(results) = Cardinality(StepsWith("result"))
    /\ pc = "done" => Len(steps) = Len(groups)

\* A track whose frame read threw, followed by a track that was reported.
C10_Witness ==
    /\ pc = "done"
    /\ \E k \in StepsWith("unread"), j \in StepsWith("result") :
          /\ k < j
          /\ steps[k].read.kind = "raise"
    /\ \E k \in StepsWith("unread") : steps[k].read.frame_id >= frame_count

\* The track of iteration k survived: long enough and its frame was read.
C13_Survives(k) ==
    LET g == groups[steps[k].group_id]
    IN  /\ 20 * (MaxFrame(g) - MinFrame(g) + 1) >= frame_rate
        /\ ~steps[k].read.ret.none

\* The iteration of the j-th surviving track.
C13_Survivor(j) ==
    CHOOSE k \in 1..Len(steps) :
        /\ C13_Survives(k)
        /\ Cardinality({i \in 1..k : C13_Survives(i)}) = j

\* C13: process_groups returns one record per surviving track (duration at
\* least 0.05 s, sample frame available) and no other, in the order of the
\* tracks, which the merge pass leaves in non-decreasing order of earliest
\* member frame.
C13_OneRecordPerSurvivorInOrder ==
    /\ \A k \in 1..(Len(groups) - 1) :
          MinFrame(groups[k]) <= MinFrame(groups[k + 1])
    /\ \A k \in 1..Len(steps) : steps[k].group_id = k
    /\ Len(results) = Cardinality({k \in 1..Len(steps) : C13_Survives(k)})
    /\ \A j \in 1..Len(results) :
          LET g == groups[C13_Survivor(j)]
          IN  /\ results[j].duration = <<MaxFrame(g) - MinFrame(g) + 1, frame_rate>>
              /\ results[j].size_norm[1] * (frame_width * frame_height)
                   = g.bbox.width * g.bbox.height * results[j].size_norm[2]
    /\ pc = "done" =>
          /\ Len(steps) = Len(groups)
          /\ returned = Returned(results)

\* Three tracks, the first one dropped, two different records returned.
C13_Witness ==
    /\ pc = "done"
    /\ Len(groups) = 3
    /\ ~C13_Survives(1)
    /\ Len(returned.value) = 2
    /\ returned.value[1].size_norm # returned.value[2].size_norm

---------------------------------------------------------------------------
(* AdGroupProcessor.group_ads (lines 339-384).                             *)
(* frames_data is a sequence of [frame_id, ads]; an ad is [bbox,           *)
(* confidence, class_id] where confidence and class_id are <<>> when the   *)
(* key is missing and <<value>> otherwise (ad.get with a default).         *)
FRAME_SKIP == 5
DBSCAN_eps == <<1, 2>>
DBSCAN_min_samples == 3

Ad(bbox, confidence, class_id) ==
    [bbox |-> bbox, confidence |-> confidence, class_id |-> class_id]
FrameData(frame_id, ads) == [frame_id |-> frame_id, ads |-> ads]
Get(opt, default) == IF opt = <<>> THEN default ELSE opt[1]

\* Lines 347-354: the valid ads of one frame, in input order.
valid_ads(frame_id, ads, fw, fh) ==
    LET ok(ad) == is_valid(ad.bbox, fw, fh, Get(ad.confidence, <<1, 1>>),
                           Get(ad.class_id, -1))
        kept == SelectSeq(ads, ok)
    IN  [i \in 1..Len(kept) |-> <<frame_id, kept[i].bbox>>]

\* Line 345 with every frame kept.
keeps_frame_every(frame_id) == TRUE

\* Line 345 counting frames from one.
keeps_frame_one_based(frame_id) == (frame_id + 1) % FRAME_SKIP = 0

keeps_frame(frame_id) == frame_id % FRAME_SKIP = 0

\* Lines 342-354: valid_bboxes, frame by frame in input order.
RECURSIVE concat_valid(_, _, _, _)
concat_valid(kept, i, fw, fh) ==
    IF i = 0 THEN <<>>
    ELSE concat_valid(kept, i - 1, fw, fh)
           \o valid_ads(kept[i].frame_id, kept[i].ads, fw, fh)

collect_valid(frames_data, fw, fh) ==
    LET on_stride(frame_data) == keeps_frame(frame_data.frame_id)
        kept == SelectSeq(frames_data, on_stride)
    IN  concat_valid(kept, Len(kept), fw, fh)

\* Lines 360-369: the feature columns, each in its own unit (time in frames,
\* centres in half pixels); line 371 z-scores every column, which cancels
\* the unit.
Feature(item) ==
    <<item[1], 2 * item[2].x + item[2].width, 2 * item[2].y + item[2].height>>

RECURSIVE SumSeq(_, _)
SumSeq(f, n) == IF n = 0 THEN 0 ELSE f[n] + SumSeq(f, n - 1)

\* n^2 times the variance of feature column d.
spread(features, d) ==
    LET n == Len(features)
        column == [k \in 1..n |-> features[k][d]]
        squares == [k \in 1..n |-> features[k][d] * features[k][d]]
    IN  n * SumSeq(squares, n) - SumSeq(column, n) * SumSeq(column, n)

\* Lines 371-372: the squared distance of the z-scored features i and j is at
\* most eps^2.  For a column with values v the squared z-score difference is
\* (v[i]-v[j])^2 * n^2 / (n*sum(v^2) - sum(v)^2); a constant column gives 0
\* (0 / (0 + 1e-6)).  The 1e-6 added to a non-zero std is dropped.
within_eps(features, spreads, i, j) ==
    LET n == Len(features)
        delta(d) == features[i][d] - features[j][d]
        term(d) == IF spreads[d] = 0 THEN <<0, 1>>
                   ELSE RNorm(<<delta(d) * delta(d) * n * n, spreads[d]>>)
    IN  RLe(RAdd(RAdd(term(1), term(2)), term(3)), RMul(DBSCAN_eps, DBSCAN_eps))

\* The points within eps of each point (itself included).
neighborhoods(features) ==
    LET n == Len(features)
    IN  CHOOSE nb \in {[i \in 1..n |-> {j \in 1..n : within_eps(features, spreads, i, j)}] :
                         spreads \in {<<spread(features, 1), spread(features, 2),
                                        spread(features, 3)>>}} : TRUE

\* Line 372, DBSCAN(eps=0.5, min_samples=3).fit(features).labels_ of
\* scikit-learn: a point with at least min_samples points (itself included)
\* within eps is a core point; a cluster is started at the lowest-index core
\* point not yet labelled and takes every point density-reachable from it; a
\* non-core point within eps of core points goes to the first cluster that
\* reaches it; every other point is noise (-1).  Clusters are numbered from
\* 0 in the order they are started.
RECURSIVE Reach(_, _, _)
Reach(S, core, nb) ==
    LET T == S \cup {j \in core : \E i \in S : j \in nb[i]}
    IN  IF T = S THEN S ELSE Reach(T, core, nb)

labels_of(n, nb) ==
    LET core == {i \in 1..n : Cardinality(nb[i]) >= DBSCAN_min_samples}
        start == [i \in core |-> SetMin(Reach({i}, core, nb))]
        starts == {start[i] : i \in core}
        number(c) == Cardinality({d \in starts : d < c})
        label(i) ==
            IF i \in core THEN number(start[i])
            ELSE LET near == {start[j] : j \in nb[i] \cap core}
                 IN  IF near = {} THEN -1 ELSE number(SetMin(near))
    IN  [i \in 1..n |-> label(i)]

dbscan_labels(features) ==
    CHOOSE lab \in {labels_of(Len(features), nb) :
                      nb \in {neighborhoods(features)}} : TRUE

\* Line 379: the members with this label, in valid_bboxes order.
RECURSIVE group_frames(_, _, _, _)
group_frames(valid, lab, label, i) ==
    IF i = 0 THEN <<>>
    ELSE IF lab[i] = label
         THEN Append(group_frames(valid, lab, label, i - 1), valid[i])
         ELSE group_frames(valid, lab, label, i - 1)

\* Lines 375-381: one AdGroup per non-noise label; set(labels) of small
\* non-negative integers is iterated in increasing order.
RECURSIVE groups_of_labels(_, _, _)
groups_of_labels(valid, lab, count) ==
    IF count = 0 THEN <<>>
    ELSE LET members == group_frames(valid, lab, count - 1, Len(valid))
             before == groups_of_labels(valid, lab, count - 1)
         IN  IF members = <<>> THEN before
             ELSE Append(before, AdGroup(max_bbox(members), members))

\* group_ads: its locals and its return value.
group_ads(frames_data, fr, fw, fh) ==
    LET valid == collect_valid(frames_data, fw, fh)
        lab == dbscan_labels([i \in 1..Len(valid) |-> Feature(valid[i])])
        count == Cardinality({lab[i] : i \in 1..Len(valid)} \ {-1})
        made == groups_of_labels(valid, lab, count)
    IN  IF valid = <<>>
        THEN [valid_bboxes |-> <<>>, labels |-> <<>>, ad_groups |-> <<>>, ret |-> <<>>]
        ELSE [valid_bboxes |-> valid, labels |-> lab, ad_groups |-> made,
              ret |-> merge_groups(made, fr)]

---------------------------------------------------------------------------
(* VideoProcessor.initialize (lines 82-103) on a video file described by   *)
(* what os.path.exists, cv2.VideoCapture and cap.get report about it.      *)
Video(exists, opens, fps, width, height, count) ==
    [exists |-> exists, opens |-> opens, fps |-> fps, width |-> width,
     height |-> height, count |-> count]

\* initialize without the check of line 95.
initialize_unchecked(v) ==
    IF ~v.exists
    THEN [ret |-> FALSE, cap |-> FALSE, frame_rate |-> 0, frame_width |-> 0,
          frame_height |-> 0, frame_count |-> 0]
    ELSE IF ~v.opens
    THEN [ret |-> FALSE, cap |-> TRUE, frame_rate |-> 0, frame_width |-> 0,
          frame_height |-> 0, frame_count |-> 0]
    ELSE [ret |-> TRUE, cap |-> TRUE, frame_rate |-> v.fps,
          frame_width |-> v.width, frame_height |-> v.height,
          frame_count |-> v.count]

\* ret is the returned bool; cap is "self.cap is not None" afterwards (the
\* capture object stays assigned when it did not open, and after the
\* cap.release() of line 97).
initialize(v) ==
    IF ~v.exists
    THEN [ret |-> FALSE, cap |-> FALSE, frame_rate |-> 0, frame_width |-> 0,
          frame_height |-> 0, frame_count |-> 0]
    ELSE IF ~v.opens
    THEN [ret |-> FALSE, cap |-> TRUE, frame_rate |-> 0, frame_width |-> 0,
          frame_height |-> 0, frame_count |-> 0]
    ELSE [ret |-> ~(v.count <= 0 \/ v.fps <= 0), cap |-> TRUE,
          frame_rate |-> v.fps, frame_width |-> v.width,
          frame_height |-> v.height, frame_count |-> v.count]

---------------------------------------------------------------------------
(* SpecSession: AdQualityAnalyzer.process_video (lines 449-468) from the   *)
(* construction of the VideoProcessor to the return.                       *)
ScenarioBox == Box(250, 100, 140, 120)
FarBox == Box(500, 200, 100, 100)
TallBox == Box(0, 0, 50, 200)
NarrowBox == Box(25, 0, 50, 200)
SquareBox == Box(0, 50, 100, 100)

Good(bbox) == Ad(bbox, <<(<<9, 10>>)>>, <<0>>)

ScenarioFrames ==
    [i \in 1..90 |-> FrameData(i - 1, IF (i - 1) % 5 = 0 THEN <<Good(ScenarioBox)>>
                                      ELSE <<>>)]

\* Two overlapping boxes of equal area on frames 0, 5, ..., 35, an ad off the
\* stride, ads without confidence or class_id, a faint ad and a lone late one.
MixedFrames ==
    <<FrameData(0, <<Good(BoxA), Good(TallBox)>>),
      FrameData(3, <<Good(BoxA)>>),
      FrameData(5, <<Good(BoxA), Ad(BoxA, <<(<<1, 2>>)>>, <<0>>), Good(TallBox)>>),
      FrameData(10, <<Ad(BoxA, <<>>, <<0>>), Good(TallBox),
                      Ad(TallBox, <<(<<9, 10>>)>>, <<>>)>>)>>
      \o [i \in 1..5 |-> FrameData(10 + 5 * i, <<Good(BoxA), Good(TallBox)>>)]
      \o <<FrameData(85, <<Good(BoxA)>>)>>

\* Two boxes of equal area around one centre, and a later far group.
EqualAreaFrames ==
    <<FrameData(0, <<Good(NarrowBox), Good(SquareBox)>>),
      FrameData(5, <<Good(NarrowBox), Good(SquareBox)>>),
      FrameData(10, <<Good(SquareBox)>>),
      FrameData(60, <<Good(FarBox), Good(FarBox)>>),
      FrameData(65, <<Good(FarBox)>>), FrameData(70, <<Good(FarBox)>>)>>

\* Three equal ads on one frame, and a later far group listed out of order.
OneFrameFrames ==
    <<FrameData(0, <<Good(BoxA), Good(BoxA), Good(BoxA)>>),
      FrameData(65, <<Good(FarBox)>>),
      FrameData(60, <<Good(FarBox), Good(FarBox), Good(FarBox)>>),
      FrameData(70, <<Good(FarBox)>>)>>

FaintFrames ==
    <<FrameData(0, <<Ad(BoxA, <<(<<1, 2>>)>>, <<0>>)>>),
      FrameData(5, <<Ad(BoxA, <<(<<9, 10>>)>>, <<7>>)>>),
      FrameData(7, <<Good(BoxA)>>)>>

SessionFrames ==
    {ScenarioFrames, MixedFrames, EqualAreaFrames, OneFrameFrames, FaintFrames,
     <<>>}

\* The predictions file: open or json.load raise (lines 457-458), a frame
\* record lacks a key group_ads reads (line 344), or it parses.
SessionPredictions ==
    {[kind |-> "unreadable", frames |-> <<>>]}
      \cup {[kind |-> k, frames |-> f] : k \in {"ok", "malformed"}, f \in SessionFrames}

ScenarioVideo == Video(TRUE, TRUE, 30, 640, 360, 90)
SessionVideos ==
    {ScenarioVideo,
     Video(TRUE, TRUE, 30, 640, 360, 60),
     Video(FALSE, FALSE, 0, 0, 0, 0),
     Video(TRUE, FALSE, 0, 0, 0, 0),
     Video(TRUE, TRUE, 30, 640, 360, 0),
     Video(TRUE, TRUE, 0, 640, 360, 90)}

\* After VideoProcessor(video_path) (lines 71-80).
InitSession ==
    /\ call = NoCall
    /\ pc = "start"
    /\ video \in SessionVideos
    /\ predictions \in SessionPredictions
    /\ valid_bboxes = <<>>
    /\ labels = <<>>
    /\ returned = NotReturned
    /\ frame_rate = 0
    /\ frame_width = 0
    /\ frame_height = 0
    /\ frame_count = 0
    /\ cap = FALSE
    /\ frame_cache = <<>>
    /\ last_read = NoRead
    /\ IdleMerge /\ IdleProcess /\ IdleWorkers

\* Lines 452-454.
Initialize ==
    /\ pc = "start"
    /\ LET r == initialize(video)
       IN  /\ cap' = r.cap
           /\ frame_rate' = r.frame_rate
           /\ frame_width' = r.frame_width
           /\ frame_height' = r.frame_height
           /\ frame_count' = r.frame_count
           /\ pc' = IF r.ret THEN "load" ELSE "done"
           /\ returned' = IF r.ret THEN returned ELSE Returned(<<>>)
    /\ UNCHANGED <<call, frame_cache, last_read, mergeVars, processVars, video,
                   predictions, valid_bboxes, labels, workerVars>>

\* Lines 466-468: what process_video returns when an exception reaches its
\* handler; nothing else is done there.
except_return == Returned(<<>>)

\* Lines 457-458.
LoadPredictions ==
    /\ pc = "load"
    /\ IF predictions.kind = "unreadable"
       THEN pc' = "done" /\ returned' = except_return
       ELSE pc' = "group" /\ returned' = returned
    /\ UNCHANGED <<call, videoVars, mergeVars, processVars, video, predictions,
                   valid_bboxes, labels, workerVars>>

\* Line 462: group_ads, or the exception it raises on a malformed record.
GroupAds ==
    /\ pc = "group"
    /\ IF predictions.kind = "malformed"
       THEN /\ pc' = "done"
            /\ returned' = except_return
            /\ UNCHANGED <<valid_bboxes, labels, mergeVars, groups>>
       ELSE LET r == group_ads(predictions.frames, frame_rate, frame_width,
                               frame_height)
            IN  /\ pc' = "process"
                /\ valid_bboxes' = r.valid_bboxes
                /\ labels' = r.labels
                /\ ad_groups' = r.ad_groups
                /\ passes' = <<r.ret>>
                /\ groups' = r.ret
                /\ returned' = returned
    /\ UNCHANGED <<call, videoVars, group_id, results, steps, video, predictions,
                   workerVars>>

NextSession ==
    \/ Initialize
    \/ LoadPredictions
    \/ GroupAds
    \/ ProcessGroup
    \/ ReturnResults

SpecSession == InitSession /\ [][NextSession]_vars

---------------------------------------------------------------------------
(* Properties of process_video and group_ads, checked under SpecSession.   *)

\* C11: when the video is missing, does not open, or has a frame count or a
\* frame rate <= 0, initialize returns False and process_video returns an
\* empty list without grouping or evaluating anything; and whatever fails
\* inside the session, process_video ends by returning a list (empty after
\* a failure), never by letting an exception out.
C11_InputErrorReturnsEmpty ==
    LET input_error == \/ ~video.exists
                       \/ ~video.opens
                       \/ video.count <= 0
                       \/ video.fps <= 0
    IN  /\ (input_error /\ pc # "start") =>
              /\ pc = "done"
              /\ returned = Returned(<<>>)
              /\ valid_bboxes = <<>> /\ labels = <<>>
              /\ ad_groups = <<>> /\ passes = <<>> /\ groups = <<>>
              /\ steps = <<>> /\ results = <<>>
        /\ pc = "done" =>
              /\ returned.returned
              /\ predictions.kind \in {"unreadable", "malformed"} =>
                    returned.value = <<>>
        /\ pc # "done" => ~returned.returned

\* A readable predictions file, a video that opens with zero frames.
C11_Witness ==
    /\ pc = "done"
    /\ video.exists /\ video.opens /\ video.count = 0 /\ video.fps = 30
    /\ predictions.kind = "ok" /\ predictions.frames = ScenarioFrames
    /\ returned = Returned(<<>>)

\* C17: whenever process_video has returned after initialize opened the
\* video, the capture is released and the frame cache is empty.
C17_ReleasedOnEveryReturn ==
    (pc = "done" /\ initialize(video).ret) =>
        /\ cap = FALSE
        /\ frame_cache = <<>>

\* C14: on the 90-frame, 30 fps, 640x360 video with the box
\* {250,100,140,120} (class 0, confidence 0.9) on frames 0, 5, ..., 85,
\* group_ads returns one track with those 18 members, process_groups gives
\* it the duration 86/30 s, and its record (when frame 0 decodes) has
\* size_norm 16800/230400, a central position and a label of at least
\* medium, as it would for every contrast between 0 and 1.
C14_Scenario ==
    (/\ video = ScenarioVideo
     /\ predictions = [kind |-> "ok", frames |-> ScenarioFrames]
     /\ pc \in {"process", "done"}) =>
        /\ Len(groups) = 1
        /\ Len(groups[1].frames) = 18
        /\ FrameIds(groups[1]) = {5 * k : k \in 0..17}
        /\ MinFrame(groups[1]) = 0 /\ MaxFrame(groups[1]) = 85
        /\ groups[1].bbox = ScenarioBox
        /\ \A k \in 1..Len(steps) : steps[k].duration = <<86, 30>>
        /\ pc = "done" => Len(steps) = 1
        /\ \A k \in 1..Len(steps) :
              (steps[k].outcome = "result") = ~steps[k].read.ret.none
        /\ Len(results) = Cardinality({k \in 1..Len(steps) : steps[k].outcome = "result"})
        /\ \A j \in 1..Len(results) :
              /\ results[j].size_norm[1] * 230400 = 16800 * results[j].size_norm[2]
              /\ results[j].pos_label = "center"
              /\ results[j].label \in {"medium", "high"}
              /\ \A c \in Tenths :
                    evaluate_quality([size_norm |-> results[j].size_norm,
                                      contrast_norm |-> c,
                                      position_score |-> <<1, 1>>,
                                      pos_label |-> results[j].pos_label],
                                     results[j].duration).label
                      \in {"medium", "high"}

\* The scenario ran to the end and reported its track.
C14_Witness ==
    /\ video = ScenarioVideo
    /\ predictions = [kind |-> "ok", frames |-> ScenarioFrames]
    /\ pc = "done"
    /\ Len(returned.value) = 1
    /\ returned.value[1].label = "medium"

\* The largest-area member of a member list, the earliest on ties.
C15_FirstLargest(track) ==
    \E i \in 1..Len(track.frames) :
        /\ track.bbox = track.frames[i][2]
        /\ \A j \in 1..Len(track.frames) :
              Area(track.frames[j][2]) <= Area(track.frames[i][2])
        /\ \A j \in 1..(i - 1) :
              Area(track.frames[j][2]) < Area(track.frames[i][2])

\* The member list of group lies unbroken at position at.. of track's list.
C15_HeldAt(group, track, at) ==
    /\ at + Len(group.frames) - 1 <= Len(track.frames)
    /\ SubSeq(track.frames, at, at + Len(group.frames) - 1) = group.frames

\* C15: every track built by group_ads and every track returned by
\* merge_groups has members and has the bbox of its largest-area member
\* (the earliest on ties) as envelope, also after absorptions; the merge
\* only appends: every group's members are kept, unbroken, in one returned
\* track, and no member is added or lost.
C15_TrackInvariant ==
    passes # <<>> =>
        /\ \A k \in 1..Len(ad_groups) :
              /\ ad_groups[k].frames # <<>>
              /\ C15_FirstLargest(ad_groups[k])
              /\ \E t \in 1..Len(groups), at \in 1..Len(valid_bboxes) :
                    C15_HeldAt(ad_groups[k], groups[t], at)
        /\ \A t \in 1..Len(groups) :
              /\ groups[t].frames # <<>>
              /\ C15_FirstLargest(groups[t])
              /\ \E k \in 1..Len(ad_groups) : C15_HeldAt(ad_groups[k], groups[t], 1)
        /\ SumSeq([t \in 1..Len(groups) |-> Len(groups[t].frames)], Len(groups))
             = SumSeq([k \in 1..Len(ad_groups) |-> Len(ad_groups[k].frames)],
                      Len(ad_groups))

\* A track that absorbed another group whose largest member equals its own
\* in area.
C15_Witness ==
    /\ pc = "process"
    /\ Len(groups) < Len(ad_groups)
    /\ \E t \in 1..Len(groups) :
          \E i, j \in 1..Len(groups[t].frames) :
              /\ i < j
              /\ groups[t].frames[i][2] # groups[t].frames[j][2]
              /\ Area(groups[t].frames[i][2]) = Area(groups[t].frames[j][2])
              /\ groups[t].bbox = groups[t].frames[i][2]

\* The ads of predictions that pass is_valid on a frame of the stride.
C16_Sound(item) ==
    \E f \in 1..Len(predictions.frames) :
        /\ predictions.frames[f].frame_id = item[1]
        /\ item[1] % 5 = 0
        /\ \E a \in 1..Len(predictions.frames[f].ads) :
              LET ad == predictions.frames[f].ads[a]
              IN  /\ ad.bbox = item[2]
                  /\ is_valid(ad.bbox, frame_width, frame_height,
                              IF ad.confidence = <<>> THEN <<1, 1>> ELSE ad.confidence[1],
                              IF ad.class_id = <<>> THEN -1 ELSE ad.class_id[1])

C16_Members(item) ==
    SumSeq([t \in 1..Len(groups) |->
              Cardinality({i \in 1..Len(groups[t].frames) : groups[t].frames[i] = item})],
           Len(groups))

C16_Clustered(item) ==
    Cardinality({i \in 1..Len(valid_bboxes) : valid_bboxes[i] = item /\ labels[i] # -1})

\* C16: the tracks group_ads returns hold exactly the detections that passed
\* is_valid on a frame whose index is a multiple of 5 and got a cluster
\* label: each of them once, no detection labelled noise, none from other
\* frames, none invalid; without a valid detection there is no track.
C16_MembershipSound ==
    passes # <<>> =>
        /\ Len(labels) = Len(valid_bboxes)
        /\ \A i \in 1..Len(valid_bboxes) :
              /\ C16_Sound(valid_bboxes[i])
              /\ C16_Members(valid_bboxes[i]) = C16_Clustered(valid_bboxes[i])
        /\ \A t \in 1..Len(groups) : \A i \in 1..Len(groups[t].frames) :
              /\ \E k \in 1..Len(valid_bboxes) : valid_bboxes[k] = groups[t].frames[i]
              /\ C16_Sound(groups[t].frames[i])
        /\ Len(valid_bboxes) =
             SumSeq([f \in 1..Len(predictions.frames) |->
                       IF predictions.frames[f].frame_id % 5 # 0 THEN 0
                       ELSE Cardinality({a \in 1..Len(predictions.frames[f].ads) :
                              LET ad == predictions.frames[f].ads[a]
                              IN  is_valid(ad.bbox, frame_width, frame_height,
                                    IF ad.confidence = <<>> THEN <<1, 1>>
                                    ELSE ad.confidence[1],
                                    IF ad.class_id = <<>> THEN -1
                                    ELSE ad.class_id[1])})],
                    Len(predictions.frames))
        /\ valid_bboxes = <<>> => groups = <<>>

\* Input with an ad off the stride, invalid ads and a noise detection, whose
\* two clusters were merged into one track.
C16_Witness ==
    /\ pc = "process"
    /\ predictions.frames = MixedFrames
    /\ \E i \in 1..Len(labels) : labels[i] = -1 /\ C16_Members(valid_bboxes[i]) = 0
    /\ Len(ad_groups) = 2 /\ Len(groups) = 1
    /\ Len(groups[1].frames) = 16

---------------------------------------------------------------------------
(* SpecConcurrent: VideoProcessor.read_frame (lines 105-131) called by     *)
(* several threads on one VideoProcessor.  The method takes no lock, so a  *)
(* thread can be switched out between any two of its statements; each      *)
(* action below is one statement (or one group without shared access) of   *)
(* one caller.  Sequential reads first fill the cache.                     *)
NumWorkers == 2
ConcurrentFrameCount == 12
ConcurrentFrames == {0, 10, 11}

Worker(position, frame_id, oldest, ret, key_error) ==
    [pc |-> position, frame_id |-> frame_id, oldest |-> oldest, ret |-> ret,
     key_error |-> key_error]
IdleWorker == Worker("idle", -1, -1, None, FALSE)

InitConcurrent ==
    /\ IdleSession /\ IdleMerge /\ IdleProcess
    /\ call = NoCall
    /\ pc = "sequential"
    /\ frame_rate = 30
    /\ frame_width = scale_width
    /\ frame_height = scale_height
    /\ frame_count = ConcurrentFrameCount
    /\ cap = TRUE
    /\ frame_cache = <<>>
    /\ last_read = NoRead
    /\ workers = [w \in 1..NumWorkers |-> IdleWorker]
    /\ decodes = [f \in 0..(ConcurrentFrameCount - 1) |-> 0]

\* One whole read_frame of the next frame, before any thread is started.
SequentialRead ==
    /\ pc = "sequential"
    /\ Len(frame_cache) < MAX_CACHE_SIZE
    /\ LET frame_id == Len(frame_cache)
           decoded == [kind |-> "ok", frame |-> PlainFrame]
           r == read_frame(frame_cache, cap, frame_count, frame_id, decoded)
       IN  /\ frame_cache' = r.frame_cache
           /\ last_read' = ReadRecord(frame_id, frame_cache, decoded, r)
           /\ decodes' = [decodes EXCEPT ![frame_id] = @ + 1]
    /\ UNCHANGED <<sessionVars, call, frame_rate, frame_width, frame_height,
                   frame_count, cap, mergeVars, processVars, pc, workers>>

\* What every step of a worker leaves alone.
WorkerFrame ==
    UNCHANGED <<sessionVars, call, frame_rate, frame_width, frame_height,
                frame_count, cap, last_read, mergeVars, processVars>>

\* Lines 107-113: the call and its tests up to "frame_id in self.frame_cache".
WorkerCall(w) ==
    /\ workers[w].pc = "idle"
    /\ pc' = "concurrent"
    /\ \E frame_id \in ConcurrentFrames :
          workers' = [workers EXCEPT ![w] =
              IF ~cap \/ frame_id >= frame_count
              THEN Worker("returned", frame_id, -1, None, FALSE)
              ELSE IF frame_id \in Keys(frame_cache)
              THEN Worker("hit", frame_id, -1, None, FALSE)
              ELSE Worker("decode", frame_id, -1, None, FALSE)]
    /\ UNCHANGED <<frame_cache, decodes>>
    /\ WorkerFrame

\* Line 115: return self.frame_cache[frame_id]; outside the try block, so a
\* key evicted since line 113 raises KeyError to the caller.
WorkerHit(w) ==
    /\ workers[w].pc = "hit"
    /\ workers' = [workers EXCEPT ![w] =
          IF workers[w].frame_id \in Keys(frame_cache)
          THEN [@ EXCEPT !.pc = "returned",
                         !.ret = Some(Lookup(frame_cache, workers[w].frame_id))]
          ELSE [@ EXCEPT !.pc = "raised", !.key_error = TRUE]]
    /\ UNCHANGED <<frame_cache, decodes, pc>>
    /\ WorkerFrame

\* Lines 117-122: cap.set, cap.read and cv2.resize.
WorkerDecode(w) ==
    /\ workers[w].pc = "decode"
    /\ decodes' = [decodes EXCEPT ![workers[w].frame_id] = @ + 1]
    /\ \E decoded \in Decodings :
          workers' = [workers EXCEPT ![w] =
              IF decoded.kind = "ok" THEN [@ EXCEPT !.pc = "full"]
              ELSE [@ EXCEPT !.pc = "returned"]]
    /\ UNCHANGED <<frame_cache, pc>>
    /\ WorkerFrame

\* Lines 123-124: the test of the size and oldest_frame = min(keys).
WorkerFull(w) ==
    /\ workers[w].pc = "full"
    /\ workers' = [workers EXCEPT ![w] =
          IF Len(frame_cache) >= MAX_CACHE_SIZE
          THEN [@ EXCEPT !.pc = "del", !.oldest = oldest_frame(frame_cache)]
          ELSE [@ EXCEPT !.pc = "store"]]
    /\ UNCHANGED <<frame_cache, decodes, pc>>
    /\ WorkerFrame

\* Line 125: del self.frame_cache[oldest_frame]; a missing key raises
\* KeyError, which the handler of lines 129-131 turns into None.
WorkerDel(w) ==
    /\ workers[w].pc = "del"
    /\ IF workers[w].oldest \in Keys(frame_cache)
       THEN /\ frame_cache' = Delete(frame_cache, workers[w].oldest)
            /\ workers' = [workers EXCEPT ![w].pc = "store"]
       ELSE /\ frame_cache' = frame_cache
            /\ workers' = [workers EXCEPT ![w] =
                  [@ EXCEPT !.pc = "returned", !.key_error = TRUE]]
    /\ UNCHANGED <<decodes, pc>>
    /\ WorkerFrame

\* Lines 126-128: self.frame_cache[frame_id] = frame; return frame.
WorkerStore(w) ==
    /\ workers[w].pc = "store"
    /\ frame_cache' =
          IF workers[w].frame_id \in Keys(frame_cache)
          THEN [i \in 1..Len(frame_cache) |->
                  IF frame_cache[i][1] = workers[w].frame_id
                  THEN <<workers[w].frame_id, PlainFrame>> ELSE frame_cache[i]]
          ELSE Append(frame_cache, <<workers[w].frame_id, PlainFrame>>)
    /\ workers' = [workers EXCEPT ![w] =
          [@ EXCEPT !.pc = "returned", !.ret = Some(PlainFrame)]]
    /\ UNCHANGED <<decodes, pc>>
    /\ WorkerFrame

NextConcurrent ==
    \/ SequentialRead
    \/ \E w \in 1..NumWorkers : WorkerCall(w)
    \/ \E w \in 1..NumWorkers : WorkerHit(w)
    \/ \E w \in 1..NumWorkers : WorkerDecode(w)
    \/ \E w \in 1..NumWorkers : WorkerFull(w)
    \/ \E w \in 1..NumWorkers : WorkerDel(w)
    \/ \E w \in 1..NumWorkers : WorkerStore(w)

SpecConcurrent == InitConcurrent /\ [][NextConcurrent]_vars

\* A worker between its cache miss and the end of its insertion.
C12_Inserting(w) == workers[w].pc \in {"decode", "full", "del", "store"}

\* C12: concurrent callers of read_frame are serialized per frame index on
\* the path from the miss to the insertion, so no two of them are on it for
\* the same index; the cache never holds more than MAX_CACHE_SIZE entries;
\* and no caller evicts a key that another has already removed.
C12_DecodeAndInsertSerialized ==
    /\ \A v, w \in 1..NumWorkers :
          (v # w /\ C12_Inserting(v) /\ C12_Inserting(w)) =>
              workers[v].frame_id # workers[w].frame_id
    /\ Len(frame_cache) <= MAX_CACHE_SIZE
    /\ \A w \in 1..NumWorkers : ~workers[w].key_error

=============================================================================
